---- MODULE Spec2Model ----
(***************************************************************************)
(* MotiBeam Spatial OS: the realm navigation and selection state machine   *)
(* of the three launchers of the repository.                               *)
(*                                                                         *)
(*   MotiBeamOS    src/spatial_os.py         4x3 home grid, six realms     *)
(*   SpatialOS     src/spatial_os_pygame.py  4x3 grid, banner and ticker   *)
(*   SpatialOSPro  src/spatial_os_pro.py     9-entry menu, launch_realm    *)
(*                                                                         *)
(* Each launcher is a separate executable: prog names the one that runs.   *)
(* Handlers are operators from a launcher state (a record of the object's  *)
(* fields) and a key code to the state after the handler returned.         *)
(***************************************************************************)
EXTENDS Integers, Sequences, FiniteSets, TLC

VARIABLES
    prog,     \* which executable was started
    os,       \* MotiBeamOS instance (src/spatial_os.py)
    sp,       \* SpatialOS instance (src/spatial_os_pygame.py)
    pro,      \* SpatialOSPro instance (src/spatial_os_pro.py)
    now,      \* time.time(), in whole seconds since construction
    nkeys,    \* number of KEYDOWN events delivered so far
    cl,       \* ClinicalRealm instance (src/_backup_20251203_220253/scenes/clinical_realm.py)
    pr,       \* ProductivityRealm instance (src/scenes/productivity_realm.py)
    loop,     \* position of the running main loop within its current tick
    disp      \* display creation at start-up: the modes tried and the outcome

vars == <<prog, os, sp, pro, now, nkeys, cl, pr, loop, disp>>

\* what the launcher state machine leaves alone
sceneVars == <<cl, pr, loop, disp>>

\* ------------------------------------------------------------------ bounds
MaxKeys == 6
MaxNow == 1

\* --------------------------------------------------------- pygame key codes
K_RETURN == 13
K_ESCAPE == 27
K_SPACE == 32
K_1 == 49
K_9 == 57
K_a == 97
K_b == 98
K_c == 99
K_d == 100
K_i == 105
K_l == 108
K_m == 109
K_n == 110
K_q == 113
K_r == 114
K_s == 115
K_w == 119
K_RIGHT == 1073741903
K_LEFT == 1073741904
K_DOWN == 1073741905
K_UP == 1073741906
K_KP_ENTER == 1073741912

DigitKeys == K_1 .. K_9

Keys ==
    {K_LEFT, K_RIGHT, K_UP, K_DOWN, K_RETURN, K_KP_ENTER, K_ESCAPE,
     K_q, K_l, K_i, K_a, K_d, K_b, K_c, K_n, K_s, K_m, K_SPACE}
    \cup DigitKeys

\* ------------------------------------------------------- grid (spatial_os.py)
GRID_COLS == 4
GRID_ROWS == 3
NumRealms == 12          \* len(REALMS)

\* Variant: no lower limit, the second argument is taken as it is.
Max_unlimited(a, b) == b
Max(a, b) == IF a > b THEN a ELSE b
Min(a, b) == IF a < b THEN a ELSE b
Last(q) == q[Len(q)]

\* Variant: cell 1 (LegacyBeam) is bound although no handler exists for it.
realm_map_extra ==
    (0 :> "circlebeam") @@ (1 :> "legacybeam") @@ (3 :> "marketplace") @@
    (4 :> "home_realm") @@ (5 :> "clinical") @@ (6 :> "education") @@
    (8 :> "transport")

\* Variant: the Clinical and Education cells are bound to each other's realm.
realm_map_swapped ==
    (0 :> "circlebeam") @@ (3 :> "marketplace") @@ (4 :> "home_realm") @@
    (5 :> "education") @@ (6 :> "clinical") @@ (8 :> "transport")

\* realm_map of handle_home_input: grid cell -> realm state name
realm_map ==
    (0 :> "circlebeam") @@ (3 :> "marketplace") @@ (4 :> "home_realm") @@
    (5 :> "clinical") @@ (6 :> "education") @@ (8 :> "transport")

\* ------------------------------------------------- MotiBeamOS: construction
Tok(m, a, e) == [msg |-> m, arg |-> a, secs |-> e]

InitTicker ==
    << Tok("initial", "Scheduling CircleBeam", 0),
       Tok("initial", "Listing schematica", 0),
       Tok("initial", "Missed presence from Dad", 0),
       Tok("initial", "Traffic alert: I-45 delay 15min", 0),
       Tok("initial", "Weather update: Clear skies", 0) >>

InitRealmData ==
    [ circlebeam  |-> [selected |-> 0, action_feedback |-> "None", action_time |-> 0],
      marketplace |-> [selected |-> 0, preview_open |-> FALSE, installed |-> {}],
      home_realm  |-> [selected |-> 0, temp_changed_time |-> 0,
                       devices |-> [living_lights |-> TRUE, bedroom_lights |-> FALSE,
                                    temp |-> 72, security |-> FALSE,
                                    door |-> TRUE, garage |-> FALSE]],
      clinical    |-> [selected |-> 0],
      education   |-> [selected |-> 0, panel_open |-> FALSE, in_session |-> FALSE,
                       subject_index |-> 0, q_index |-> 0, session_start_time |-> 0,
                       answered_correctly |-> FALSE, last_ticker_msg |-> ""],
      transport   |-> [selected |-> 0] ]

MotiBeamOS_init ==
    [ running |-> TRUE,
      selected_index |-> 0,
      state |-> "home",
      navigation_stack |-> <<"home">>,
      realm_data |-> InitRealmData,
      call_active |-> FALSE,
      missed_presence |-> FALSE,
      current_alert_index |-> 0,
      alert_change_time |-> 0,
      alert_enabled |-> FALSE,
      alert_pulse |-> 0,
      ticker_text |-> InitTicker,
      ticker_offset |-> 0,
      system_state |-> "CALM" ]

\* ------------------------------------------------- MotiBeamOS: navigation
\* Variant: the index is moved without clamping the row and column.
move_selection_unclamped(s, dx, dy) ==
    [s EXCEPT !.selected_index = s.selected_index + dx + dy * GRID_COLS]

\* Variant: the column wraps around inside its row, the row inside its column.
move_selection_wrap(s, dx, dy) ==
    LET index == s.selected_index
        row == ((index \div GRID_COLS) + dy) % GRID_ROWS
        col == ((index % GRID_COLS) + dx) % GRID_COLS
    IN  [s EXCEPT !.selected_index = row * GRID_COLS + col]

move_selection(s, dx, dy) ==
    LET index == s.selected_index
        row == Max(0, Min(GRID_ROWS - 1, (index \div GRID_COLS) + dy))
        col == Max(0, Min(GRID_COLS - 1, (index % GRID_COLS) + dx))
        new_index == row * GRID_COLS + col
    IN  IF new_index < NumRealms
        THEN [s EXCEPT !.selected_index = new_index]
        ELSE s

\* Variant: the realm's state is created afresh on every entry.
enter_realm_reinit(s, realm_name) ==
    [s EXCEPT !.navigation_stack = Append(@, realm_name),
              !.state = realm_name,
              !.realm_data[realm_name] = InitRealmData[realm_name],
              !.missed_presence = IF realm_name = "circlebeam" THEN FALSE ELSE @]

\* Variant: the realm replaces the history instead of being pushed onto it.
enter_realm_replace(s, realm_name) ==
    [s EXCEPT !.navigation_stack = <<realm_name>>,
              !.state = realm_name,
              !.missed_presence = IF realm_name = "circlebeam" THEN FALSE ELSE @]

\* Variant: entering CircleBeam leaves the missed-presence mark in place.
enter_realm_keep_missed(s, realm_name) ==
    [s EXCEPT !.navigation_stack = Append(@, realm_name),
              !.state = realm_name]

enter_realm(s, realm_name) ==
    LET t == [s EXCEPT !.navigation_stack = Append(@, realm_name),
                       !.state = realm_name]
    IN  IF realm_name = "circlebeam"
        THEN [t EXCEPT !.missed_presence = FALSE]
        ELSE t

\* Variant: the stack is popped but state keeps naming the realm.
go_back_stale_state(s) ==
    IF Len(s.navigation_stack) > 1
    THEN [s EXCEPT !.navigation_stack = SubSeq(@, 1, Len(@) - 1)]
    ELSE s

\* Variant: going back also puts the highlight back on the first cell.
go_back_reset_selection(s) ==
    IF Len(s.navigation_stack) > 1
    THEN LET stk == SubSeq(s.navigation_stack, 1, Len(s.navigation_stack) - 1)
         IN  [s EXCEPT !.navigation_stack = stk, !.state = Last(stk),
                       !.selected_index = 0]
    ELSE s

go_back(s) ==
    IF Len(s.navigation_stack) > 1
    THEN LET stk == SubSeq(s.navigation_stack, 1, Len(s.navigation_stack) - 1)
         IN  [s EXCEPT !.navigation_stack = stk, !.state = Last(stk)]
    ELSE s

\* pygame.quit(); sys.exit(0)
sys_exit(s) == [s EXCEPT !.running = FALSE]

\* Variant: the digit itself is taken as the index.
quick_select_index_off_by_one(key) == key - K_1 + 1

\* idx = key - pygame.K_1
quick_select_index(key) == key - K_1

handle_home_input(s, key) ==
    IF key = K_LEFT THEN move_selection(s, -1, 0)
    ELSE IF key = K_RIGHT THEN move_selection(s, 1, 0)
    ELSE IF key = K_UP THEN move_selection(s, 0, -1)
    ELSE IF key = K_DOWN THEN move_selection(s, 0, 1)
    ELSE IF key = K_RETURN \/ key = K_KP_ENTER THEN
        IF s.selected_index \in DOMAIN realm_map
        THEN enter_realm(s, realm_map[s.selected_index])
        ELSE s
    ELSE IF K_1 <= key /\ key <= K_9 THEN
        LET idx == quick_select_index(key)
        IN  IF idx < NumRealms THEN [s EXCEPT !.selected_index = idx] ELSE s
    ELSE s

\* ------------------------------------------------- MotiBeamOS: realm handlers
handle_circlebeam_input(s, key) ==
    LET selected == s.realm_data.circlebeam.selected
        total_members == 5
        cols == 3
    IN  IF key = K_LEFT THEN
            IF selected % cols > 0
            THEN [s EXCEPT !.realm_data.circlebeam.selected = selected - 1] ELSE s
        ELSE IF key = K_RIGHT THEN
            IF selected % cols < cols - 1 /\ selected < total_members - 1
            THEN [s EXCEPT !.realm_data.circlebeam.selected = selected + 1] ELSE s
        ELSE IF key = K_UP THEN
            IF selected >= cols
            THEN [s EXCEPT !.realm_data.circlebeam.selected = selected - cols] ELSE s
        ELSE IF key = K_DOWN THEN
            IF selected + cols < total_members
            THEN [s EXCEPT !.realm_data.circlebeam.selected = selected + cols] ELSE s
        ELSE s

px_names ==
    <<"Sleep PX", "Focus PX", "Family PX", "Education PX", "Home PX", "Featured Today">>

\* render_marketplace: the 'status' shown for the PX of the given name
px_status(installed, name) ==
    IF name = "Featured Today" THEN "COMING SOON"
    ELSE IF name \in installed THEN "INSTALLED"
    ELSE IF name = "Home PX" THEN "COMING SOON"
    ELSE "AVAILABLE"

handle_marketplace_input(s, key) ==
    LET selected == s.realm_data.marketplace.selected
        preview_open == s.realm_data.marketplace.preview_open
        installed == s.realm_data.marketplace.installed
        total_pxs == 6
        cols == 3
    IN  IF key = K_LEFT THEN
            IF selected % cols > 0
            THEN [s EXCEPT !.realm_data.marketplace.selected = selected - 1] ELSE s
        ELSE IF key = K_RIGHT THEN
            IF selected % cols < cols - 1 /\ selected < total_pxs - 1
            THEN [s EXCEPT !.realm_data.marketplace.selected = selected + 1] ELSE s
        ELSE IF key = K_UP THEN
            IF selected >= cols
            THEN [s EXCEPT !.realm_data.marketplace.selected = selected - cols] ELSE s
        ELSE IF key = K_DOWN THEN
            IF selected + cols < total_pxs
            THEN [s EXCEPT !.realm_data.marketplace.selected = selected + cols] ELSE s
        ELSE IF key = K_RETURN \/ key = K_KP_ENTER THEN
            [s EXCEPT !.realm_data.marketplace.preview_open = ~preview_open]
        ELSE IF key = K_b THEN
            IF preview_open
            THEN [s EXCEPT !.realm_data.marketplace.preview_open = FALSE] ELSE s
        ELSE IF key = K_d THEN
            LET selected_px == px_names[selected + 1]
            IN  IF selected_px \notin installed /\ selected_px # "Featured Today"
                THEN [s EXCEPT !.realm_data.marketplace.installed = @ \cup {selected_px},
                               !.ticker_text = <<Tok("install", selected_px, 0)>> \o @]
                ELSE s
        ELSE s

device_ids ==
    <<"living_lights", "bedroom_lights", "temp", "security", "door", "garage">>

\* Variant: the Home realm without the thermostat's LEFT/RIGHT handling.
handle_home_realm_input_plain(s, key, t) ==
    LET selected == s.realm_data.home_realm.selected
    IN  IF key = K_LEFT THEN
            IF selected % 3 > 0
            THEN [s EXCEPT !.realm_data.home_realm.selected = selected - 1] ELSE s
        ELSE IF key = K_RIGHT THEN
            IF selected % 3 < 2 /\ selected < 5
            THEN [s EXCEPT !.realm_data.home_realm.selected = selected + 1] ELSE s
        ELSE IF key = K_UP THEN
            IF selected >= 3
            THEN [s EXCEPT !.realm_data.home_realm.selected = selected - 3] ELSE s
        ELSE IF key = K_DOWN THEN
            IF selected < 3
            THEN [s EXCEPT !.realm_data.home_realm.selected = selected + 3] ELSE s
        ELSE IF key = K_RETURN \/ key = K_KP_ENTER THEN
            LET device_id == device_ids[selected + 1]
            IN  IF device_id = "temp" THEN s
                ELSE [s EXCEPT !.realm_data.home_realm.devices[device_id] = ~@]
        ELSE s

handle_home_realm_input(s, key, t) ==
    LET selected == s.realm_data.home_realm.selected
        devices_state == s.realm_data.home_realm.devices
        is_thermostat_selected == (selected = 2)
    IN  IF key = K_LEFT THEN
            IF is_thermostat_selected THEN
                LET current_temp == devices_state.temp
                    new_temp == Max(60, current_temp - 1)
                IN  IF new_temp # current_temp
                    THEN [s EXCEPT !.realm_data.home_realm.devices.temp = new_temp,
                                   !.realm_data.home_realm.temp_changed_time = t]
                    ELSE s
            ELSE IF selected % 3 > 0
            THEN [s EXCEPT !.realm_data.home_realm.selected = selected - 1] ELSE s
        ELSE IF key = K_RIGHT THEN
            IF is_thermostat_selected THEN
                LET current_temp == devices_state.temp
                    new_temp == Min(85, current_temp + 1)
                IN  IF new_temp # current_temp
                    THEN [s EXCEPT !.realm_data.home_realm.devices.temp = new_temp,
                                   !.realm_data.home_realm.temp_changed_time = t]
                    ELSE s
            ELSE IF selected % 3 < 2 /\ selected < 5
            THEN [s EXCEPT !.realm_data.home_realm.selected = selected + 1] ELSE s
        ELSE IF key = K_UP THEN
            IF selected >= 3
            THEN [s EXCEPT !.realm_data.home_realm.selected = selected - 3] ELSE s
        ELSE IF key = K_DOWN THEN
            IF selected < 3
            THEN [s EXCEPT !.realm_data.home_realm.selected = selected + 3] ELSE s
        ELSE IF key = K_RETURN \/ key = K_KP_ENTER THEN
            LET device_id == device_ids[selected + 1]
            IN  IF device_id = "temp" THEN s
                ELSE [s EXCEPT !.realm_data.home_realm.devices[device_id] = ~@]
        ELSE s

\* Variant: the Clinical dashboard dismisses the call overlay on confirm.
handle_clinical_input_dismiss(s, key) ==
    IF key = K_RETURN \/ key = K_KP_ENTER THEN [s EXCEPT !.call_active = FALSE] ELSE s

handle_clinical_input(s, key) == s

\* get_education_questions: the 'correct' letter of question q of subject sub
get_education_questions ==
    << <<"a", "b", "b">>, <<"b", "c", "b">>, <<"a", "b", "c">>,
       <<"b", "c", "a">>, <<"b", "c", "c">>, <<"b", "b", "b">> >>

subject_names ==
    <<"Mathematics", "Reading", "Science", "History", "Geography", "Creative">>

\* the letter an answer key stands for, "" for any other key
AnswerLetter(key) ==
    IF key = K_a THEN "a" ELSE IF key = K_b THEN "b" ELSE IF key = K_c THEN "c" ELSE ""

\* prepend msg to the ticker unless the ticker already starts with it
PrependDeduped(ticker, msg) ==
    IF Len(ticker) > 0 /\ Head(ticker) = msg THEN ticker ELSE <<msg>> \o ticker

\* Variant: N moves on whether or not the question was answered correctly.
handle_education_input_skip(s, key, t) ==
    LET ed == s.realm_data.education
        selected == ed.selected
        panel_open == ed.panel_open
    IN  IF ed.in_session THEN
            LET q_index == ed.q_index
                subject_index == ed.subject_index
                correct == get_education_questions[subject_index + 1][q_index + 1]
                s1 == IF key = K_n THEN
                          IF q_index < 2
                          THEN [s EXCEPT !.realm_data.education.q_index = q_index + 1,
                                         !.realm_data.education.answered_correctly = FALSE]
                          ELSE [s EXCEPT
                                  !.realm_data.education.in_session = FALSE,
                                  !.realm_data.education.panel_open = FALSE,
                                  !.ticker_text = PrependDeduped(@,
                                      Tok("complete", subject_names[subject_index + 1],
                                          t - ed.session_start_time))]
                      ELSE IF ~ed.answered_correctly /\ AnswerLetter(key) # ""
                              /\ AnswerLetter(key) = correct
                      THEN [s EXCEPT !.realm_data.education.answered_correctly = TRUE]
                      ELSE s
            IN  IF key = K_ESCAPE
                THEN [s1 EXCEPT !.realm_data.education.in_session = FALSE,
                                !.realm_data.education.panel_open = FALSE]
                ELSE s1
        ELSE IF key = K_LEFT THEN
            IF selected % 3 > 0
            THEN [s EXCEPT !.realm_data.education.selected = selected - 1] ELSE s
        ELSE IF key = K_RIGHT THEN
            IF selected % 3 < 2 /\ selected < 5
            THEN [s EXCEPT !.realm_data.education.selected = selected + 1] ELSE s
        ELSE IF key = K_UP THEN
            IF selected >= 3
            THEN [s EXCEPT !.realm_data.education.selected = selected - 3] ELSE s
        ELSE IF key = K_DOWN THEN
            IF selected < 3
            THEN [s EXCEPT !.realm_data.education.selected = selected + 3] ELSE s
        ELSE IF key = K_RETURN \/ key = K_KP_ENTER THEN
            [s EXCEPT !.realm_data.education.panel_open = ~panel_open]
        ELSE IF key = K_b THEN
            IF panel_open
            THEN [s EXCEPT !.realm_data.education.panel_open = FALSE] ELSE s
        ELSE IF key = K_s THEN
            IF panel_open
            THEN [s EXCEPT !.realm_data.education.in_session = TRUE,
                           !.realm_data.education.subject_index = selected,
                           !.realm_data.education.q_index = 0,
                           !.realm_data.education.session_start_time = t,
                           !.realm_data.education.answered_correctly = FALSE,
                           !.ticker_text = PrependDeduped(@,
                               Tok("start", subject_names[selected + 1], 0))]
            ELSE s
        ELSE s

handle_education_input(s, key, t) ==
    LET ed == s.realm_data.education
        selected == ed.selected
        panel_open == ed.panel_open
    IN  IF ed.in_session THEN
            LET q_index == ed.q_index
                subject_index == ed.subject_index
                correct == get_education_questions[subject_index + 1][q_index + 1]
                s1 == IF ~ed.answered_correctly THEN
                          IF AnswerLetter(key) # "" /\ AnswerLetter(key) = correct
                          THEN [s EXCEPT !.realm_data.education.answered_correctly = TRUE]
                          ELSE s
                      ELSE IF key = K_n THEN
                          IF q_index < 2
                          THEN [s EXCEPT !.realm_data.education.q_index = q_index + 1,
                                         !.realm_data.education.answered_correctly = FALSE]
                          ELSE [s EXCEPT
                                  !.realm_data.education.in_session = FALSE,
                                  !.realm_data.education.panel_open = FALSE,
                                  !.ticker_text = PrependDeduped(@,
                                      Tok("complete", subject_names[subject_index + 1],
                                          t - ed.session_start_time))]
                      ELSE s
            IN  IF key = K_ESCAPE
                THEN [s1 EXCEPT !.realm_data.education.in_session = FALSE,
                                !.realm_data.education.panel_open = FALSE]
                ELSE s1
        ELSE IF key = K_LEFT THEN
            IF selected % 3 > 0
            THEN [s EXCEPT !.realm_data.education.selected = selected - 1] ELSE s
        ELSE IF key = K_RIGHT THEN
            IF selected % 3 < 2 /\ selected < 5
            THEN [s EXCEPT !.realm_data.education.selected = selected + 1] ELSE s
        ELSE IF key = K_UP THEN
            IF selected >= 3
            THEN [s EXCEPT !.realm_data.education.selected = selected - 3] ELSE s
        ELSE IF key = K_DOWN THEN
            IF selected < 3
            THEN [s EXCEPT !.realm_data.education.selected = selected + 3] ELSE s
        ELSE IF key = K_RETURN \/ key = K_KP_ENTER THEN
            [s EXCEPT !.realm_data.education.panel_open = ~panel_open]
        ELSE IF key = K_b THEN
            IF panel_open
            THEN [s EXCEPT !.realm_data.education.panel_open = FALSE] ELSE s
        ELSE IF key = K_s THEN
            IF panel_open
            THEN [s EXCEPT !.realm_data.education.in_session = TRUE,
                           !.realm_data.education.subject_index = selected,
                           !.realm_data.education.q_index = 0,
                           !.realm_data.education.session_start_time = t,
                           !.realm_data.education.answered_correctly = FALSE,
                           !.ticker_text = PrependDeduped(@,
                               Tok("start", subject_names[selected + 1], 0))]
            ELSE s
        ELSE s

\* Variant: LEFT in Transport steps back across the row boundary.
handle_transport_input_rowwrap(s, key) ==
    LET selected == s.realm_data.transport.selected
    IN  IF key = K_LEFT THEN
            IF selected > 0
            THEN [s EXCEPT !.realm_data.transport.selected = selected - 1] ELSE s
        ELSE IF key = K_RIGHT THEN
            IF selected % 3 < 2 /\ selected < 5
            THEN [s EXCEPT !.realm_data.transport.selected = selected + 1] ELSE s
        ELSE IF key = K_UP THEN
            IF selected >= 3
            THEN [s EXCEPT !.realm_data.transport.selected = selected - 3] ELSE s
        ELSE IF key = K_DOWN THEN
            IF selected < 3
            THEN [s EXCEPT !.realm_data.transport.selected = selected + 3] ELSE s
        ELSE s

handle_transport_input(s, key) ==
    LET selected == s.realm_data.transport.selected
    IN  IF key = K_LEFT THEN
            IF selected % 3 > 0
            THEN [s EXCEPT !.realm_data.transport.selected = selected - 1] ELSE s
        ELSE IF key = K_RIGHT THEN
            IF selected % 3 < 2 /\ selected < 5
            THEN [s EXCEPT !.realm_data.transport.selected = selected + 1] ELSE s
        ELSE IF key = K_UP THEN
            IF selected >= 3
            THEN [s EXCEPT !.realm_data.transport.selected = selected - 3] ELSE s
        ELSE IF key = K_DOWN THEN
            IF selected < 3
            THEN [s EXCEPT !.realm_data.transport.selected = selected + 3] ELSE s
        ELSE s

\* ------------------------------------------------- MotiBeamOS: key dispatch
\* Variant: the marketplace state is routed to the Home realm's handler.
route_to_handler_misrouted(s, key, t) ==
    IF s.state = "home" THEN handle_home_input(s, key)
    ELSE IF s.state = "circlebeam" THEN handle_circlebeam_input(s, key)
    ELSE IF s.state = "marketplace" THEN handle_home_realm_input(s, key, t)
    ELSE IF s.state = "home_realm" THEN handle_home_realm_input(s, key, t)
    ELSE IF s.state = "clinical" THEN handle_clinical_input(s, key)
    ELSE IF s.state = "education" THEN handle_education_input(s, key, t)
    ELSE IF s.state = "transport" THEN handle_transport_input(s, key)
    ELSE s

\* "Route to state-specific handlers": the tail of handle_key
route_to_handler(s, key, t) ==
    IF s.state = "home" THEN handle_home_input(s, key)
    ELSE IF s.state = "circlebeam" THEN handle_circlebeam_input(s, key)
    ELSE IF s.state = "marketplace" THEN handle_marketplace_input(s, key)
    ELSE IF s.state = "home_realm" THEN handle_home_realm_input(s, key, t)
    ELSE IF s.state = "clinical" THEN handle_clinical_input(s, key)
    ELSE IF s.state = "education" THEN handle_education_input(s, key, t)
    ELSE IF s.state = "transport" THEN handle_transport_input(s, key)
    ELSE s

\* Variant: Q is looked at last, and only on the home grid.
handle_key_quit_last(s, key, t) ==
    IF key = K_ESCAPE THEN
        IF s.state = "home" THEN sys_exit(s) ELSE go_back(s)
    ELSE IF key = K_l THEN
        [s EXCEPT !.alert_enabled = ~@, !.alert_change_time = t]
    ELSE IF key = K_i THEN [s EXCEPT !.call_active = TRUE]
    ELSE IF key = K_a /\ s.call_active THEN [s EXCEPT !.call_active = FALSE]
    ELSE IF key = K_d /\ s.call_active THEN
        [s EXCEPT !.call_active = FALSE,
                  !.missed_presence = TRUE,
                  !.ticker_text = PrependDeduped(@, Tok("missed", "Mom", 0))]
    ELSE IF key = K_q /\ s.state = "home" THEN sys_exit(s)
    ELSE route_to_handler(s, key, t)

handle_key(s, key, t) ==
    IF key = K_q THEN sys_exit(s)
    ELSE IF key = K_ESCAPE THEN
        IF s.state = "home" THEN sys_exit(s) ELSE go_back(s)
    ELSE IF key = K_l THEN
        [s EXCEPT !.alert_enabled = ~@, !.alert_change_time = t]
    ELSE IF key = K_i THEN [s EXCEPT !.call_active = TRUE]
    ELSE IF key = K_a /\ s.call_active THEN [s EXCEPT !.call_active = FALSE]
    ELSE IF key = K_d /\ s.call_active THEN
        [s EXCEPT !.call_active = FALSE,
                  !.missed_presence = TRUE,
                  !.ticker_text = PrependDeduped(@, Tok("missed", "Mom", 0))]
    ELSE route_to_handler(s, key, t)

\* QUIT event in MotiBeamOS.run: pygame.quit(); sys.exit(0)
run_quit_event(s) == sys_exit(s)

\* ------------------------------------------------- SpatialOS (spatial_os_pygame.py)
\* config/realms_config.py REALMS: the "id" of each of the 12 grid entries
REALMS_id ==
    <<"circlebeam", "legacybeam", "lockboxbeam", "marketplace", "home", "clinical",
      "education", "emergency", "transport", "security", "aviation", "maritime">>

SpatialOS_init ==
    [ running |-> TRUE,
      selected_realm |-> 0,
      ticker_messages |-> <<"Weather", "System Status", "Calendar">>,
      banner_state |-> "CALM",
      banner_alerts |-> <<>>,
      productivity_runs |-> 0,
      current_message_index |-> 0,
      scroll_x |-> 0,
      last_message_change |-> 0,
      selection_pulse |-> 0,
      selection_pulse_direction |-> 1 ]

\* NotificationTicker.add_message
add_message(messages, message) ==
    IF \E i \in 1..Len(messages) : messages[i] = message
    THEN messages
    ELSE Append(messages, message)

\* the KEYDOWN branch of SpatialOS.handle_events, for one event
handle_events_key(s, key) ==
    LET sel == s.selected_realm
        n == Len(REALMS_id)
    IN  IF key = K_LEFT THEN
            IF sel % GRID_COLS > 0 THEN [s EXCEPT !.selected_realm = sel - 1] ELSE s
        ELSE IF key = K_RIGHT THEN
            IF sel % GRID_COLS < GRID_COLS - 1 /\ sel < n - 1
            THEN [s EXCEPT !.selected_realm = sel + 1] ELSE s
        ELSE IF key = K_UP THEN
            IF sel >= GRID_COLS THEN [s EXCEPT !.selected_realm = sel - GRID_COLS] ELSE s
        ELSE IF key = K_DOWN THEN
            IF sel + GRID_COLS < n THEN [s EXCEPT !.selected_realm = sel + GRID_COLS] ELSE s
        ELSE IF key = K_RETURN THEN
            LET realm == REALMS_id[sel + 1]
                s1 == [s EXCEPT !.ticker_messages = add_message(@, "Entering " \o realm)]
            IN  IF realm = "productivity"
                THEN [s1 EXCEPT !.productivity_runs = @ + 1]
                ELSE s1
        ELSE IF key >= K_1 /\ key <= K_9 THEN
            LET realm_num == key - K_1
            IN  IF realm_num < n THEN [s EXCEPT !.selected_realm = realm_num] ELSE s
        ELSE IF key = K_a THEN
            [s EXCEPT !.banner_alerts = <<"severe">>, !.banner_state = "ALERT",
                      !.ticker_messages = add_message(@, "ALERT: Severe weather")]
        ELSE IF key = K_m THEN
            [s EXCEPT !.banner_alerts = <<"medical">>, !.banner_state = "ALERT",
                      !.ticker_messages = add_message(@, "Medical reminder active")]
        ELSE IF key = K_c THEN
            [s EXCEPT !.banner_alerts = <<>>, !.banner_state = "CALM",
                      !.ticker_messages = add_message(@, "System returned to calm state")]
        ELSE IF key = K_q THEN [s EXCEPT !.running = FALSE]
        ELSE s

\* the QUIT branch of SpatialOS.handle_events
handle_events_quit(s) == [s EXCEPT !.running = FALSE]

\* ------------------------------------------------- SpatialOSPro (spatial_os_pro.py)
realm_order ==
    <<"home", "clinical", "education", "transport", "emergency", "security",
      "enterprise", "aviation", "maritime">>

\* screen: "menu" inside show_menu, "realm" inside launch_realm, "shutdown" after run
SpatialOSPro_init ==
    [ selected_index |-> 0, screen |-> "menu", launched |-> "none" ]

\* int(chr(event.key)): the digit a key code in '1'..'9' denotes
int_chr(key) == (key - K_1) + 1

\* SpatialOSPro.run, one turn: launch_realm(realm_id) for what show_menu returned
launch_realm(s, realm_id) == [s EXCEPT !.screen = "realm", !.launched = realm_id]

\* run's "if realm_id is None: break", then pygame.quit()
run_break(s) == [s EXCEPT !.screen = "shutdown"]

\* Variant: the menu selection stops at the first and the last entry.
show_menu_key_clamped(s, key) ==
    IF key = K_ESCAPE \/ key = K_q THEN run_break(s)
    ELSE IF key = K_UP THEN [s EXCEPT !.selected_index = Max(0, s.selected_index - 1)]
    ELSE IF key = K_DOWN THEN [s EXCEPT !.selected_index = Min(8, s.selected_index + 1)]
    ELSE IF key = K_RETURN THEN launch_realm(s, realm_order[s.selected_index + 1])
    ELSE IF key \in K_1 .. K_9 THEN
        LET index == int_chr(key) - 1
        IN  launch_realm(s, realm_order[index + 1])
    ELSE s

\* the KEYDOWN branch of show_menu, followed by what run does with its return value
show_menu_key(s, key) ==
    IF key = K_ESCAPE \/ key = K_q THEN run_break(s)
    ELSE IF key = K_UP THEN [s EXCEPT !.selected_index = (s.selected_index - 1) % 9]
    ELSE IF key = K_DOWN THEN [s EXCEPT !.selected_index = (s.selected_index + 1) % 9]
    ELSE IF key = K_RETURN THEN launch_realm(s, realm_order[s.selected_index + 1])
    ELSE IF key \in K_1 .. K_9 THEN
        LET index == int_chr(key) - 1
        IN  launch_realm(s, realm_order[index + 1])
    ELSE s

\* show_placeholder: ESC or Q ends the placeholder, run then loops back to show_menu
show_placeholder_key(s, key) ==
    IF key = K_ESCAPE \/ key = K_q
    THEN [s EXCEPT !.screen = "menu", !.launched = "none"]
    ELSE s

\* show_placeholder: "if elapsed > 5: break"
show_placeholder_timeout(s) == [s EXCEPT !.screen = "menu", !.launched = "none"]

\* ------------------------------------------- MotiBeamOS: the draw calls of run
SCREEN_WIDTH == 1920
alert_duration == 8
ticker_speed == 2

\* self.alerts: the 'type' of each entry
alerts_type == <<"severe", "medical", "message">>

\* Surface.get_width() of a rendered line of text, in pixels: fixed by the font,
\* which the repository does not contain; a line is some hundreds of pixels wide
rendered_width == 400

\* Variant: the rotation does not capture the time of the change.
draw_alert_banner_stale_time(s, t) ==
    IF ~s.alert_enabled THEN s
    ELSE
        LET s1 == IF t - s.alert_change_time > alert_duration
                  THEN LET index == (s.current_alert_index + 1) % Len(alerts_type)
                       IN  [s EXCEPT !.current_alert_index = index,
                                     !.system_state =
                                         IF alerts_type[index + 1] \in {"severe", "medical"}
                                         THEN "ALERT" ELSE "CALM"]
                  ELSE s
        IN  IF alerts_type[s1.current_alert_index + 1] = "medical"
            THEN [s1 EXCEPT !.alert_pulse = @ + 1]
            ELSE s1

\* draw_alert_banner at time t: rotates the alert and advances the pulse
draw_alert_banner(s, t) ==
    IF ~s.alert_enabled THEN s
    ELSE
        LET s1 == IF t - s.alert_change_time > alert_duration
                  THEN LET index == (s.current_alert_index + 1) % Len(alerts_type)
                       IN  [s EXCEPT !.current_alert_index = index,
                                     !.alert_change_time = t,
                                     !.system_state =
                                         IF alerts_type[index + 1] \in {"severe", "medical"}
                                         THEN "ALERT" ELSE "CALM"]
                  ELSE s
        IN  IF alerts_type[s1.current_alert_index + 1] = "medical"
            THEN [s1 EXCEPT !.alert_pulse = @ + 1]      \* += 0.15, counted in steps
            ELSE s1

\* draw_state_indicator: draws the STATE text, assigns nothing
draw_state_indicator(s) == s

\* the state-specific rendering of run: draw_header/draw_grid/draw_footer on the
\* home grid, render_<realm> inside a realm; none of them assigns a field or an
\* entry of realm_data
render_state(s) == s

\* draw_ticker: scrolls the ticker by ticker_speed and wraps it
draw_ticker(s) ==
    LET offset == s.ticker_offset - ticker_speed
    IN  [s EXCEPT !.ticker_offset =
                      IF offset < -rendered_width THEN SCREEN_WIDTH ELSE offset]

\* draw_call_overlay: draws the call card while call_active, assigns nothing
draw_call_overlay(s) == s

\* ------------------------------------------- SpatialOS: update and draw
TICKER_MESSAGE_DURATION == 15
\* 1.5 pixels per update; scroll_x is kept in half pixels
TICKER_SCROLL_SPEED == 3
\* main(): SpatialOS(width=1024, ...)
screen_width == 1024

\* NotificationTicker.update at time t
ticker_update(s, t) ==
    IF Len(s.ticker_messages) > 0 THEN
        IF t - s.last_message_change > TICKER_MESSAGE_DURATION
        THEN [s EXCEPT !.current_message_index = (@ + 1) % Len(s.ticker_messages),
                       !.scroll_x = 2 * screen_width,
                       !.last_message_change = t]
        ELSE [s EXCEPT !.scroll_x = @ - TICKER_SCROLL_SPEED]
    ELSE s

\* SpatialOS.update: ticker.update(), then the selection pulse in steps of 0.02
update(s, t) ==
    LET s1 == ticker_update(s, t)
        pulse == s1.selection_pulse + s1.selection_pulse_direction
    IN  [s1 EXCEPT !.selection_pulse = pulse,
                   !.selection_pulse_direction =
                       IF pulse >= 50 \/ pulse <= 0 THEN -@ ELSE @]

\* NotificationTicker.draw: resets the scroll once the message left the screen
ticker_draw(s) ==
    IF Len(s.ticker_messages) > 0 /\ s.scroll_x + 2 * rendered_width < 0
    THEN [s EXCEPT !.scroll_x = 2 * screen_width]
    ELSE s

\* SpatialOS.draw: fill, banner.draw, draw_realm_grid, ticker.draw, display.flip
draw(s) == ticker_draw(s)

\* ------------------------------------------- ClinicalRealm (scenes/clinical_realm.py)
ecg_alert_duration == 2500
\* run(duration=60)
duration == 60

ClinicalRealm_init ==
    [ running |-> FALSE,
      current_view |-> 0,
      ecg_alert_active |-> FALSE,
      ecg_alert_start |-> 0 ]

\* pygame.time.get_ticks(): milliseconds since pygame.init()
get_ticks(t) == t * 1000

\* the KEYDOWN branch of ClinicalRealm.run
clinical_key(s, key, t) ==
    IF key = K_ESCAPE THEN [s EXCEPT !.running = FALSE]
    ELSE IF key \in {K_RIGHT, K_d, K_DOWN, K_s}
    THEN [s EXCEPT !.current_view = (@ + 1) % 4]
    ELSE IF key \in {K_LEFT, K_a, K_UP, K_w}
    THEN [s EXCEPT !.current_view = (@ - 1) % 4]
    ELSE IF key = K_1 THEN [s EXCEPT !.current_view = 0]
    ELSE IF key = K_1 + 1 THEN [s EXCEPT !.current_view = 1]
    ELSE IF key = K_1 + 2 THEN [s EXCEPT !.current_view = 2]
    ELSE IF key = K_SPACE
    THEN [s EXCEPT !.ecg_alert_active = TRUE, !.ecg_alert_start = get_ticks(t)]
    ELSE s

\* the QUIT branch of ClinicalRealm.run
clinical_quit(s) == [s EXCEPT !.running = FALSE]

\* ClinicalRealm._draw_ecg_alert at time t
draw_ecg_alert(s, t) ==
    IF ~s.ecg_alert_active THEN s
    ELSE IF get_ticks(t) - s.ecg_alert_start > ecg_alert_duration
    THEN [s EXCEPT !.ecg_alert_active = FALSE]
    ELSE s

\* _draw_header, _render_mind/_render_body/_render_spirit/_render_trends and
\* _draw_footer: they draw and assign nothing
clinical_draw_view(s) == s

\* ------------------------------------------- ProductivityRealm (scenes/productivity_realm.py)
\* len(MODULES) and self.grid_cols
NumModules == 6
grid_cols == 2

\* demo_start_time is <<>> for None and <<t>> for the time t
ProductivityRealm_init ==
    [ running |-> TRUE,
      selected_module |-> 0,
      show_preview_panel |-> FALSE,
      demo_mode |-> FALSE,
      demo_timer |-> 25 * 60,
      demo_paused |-> FALSE,
      demo_start_time |-> <<>> ]

\* Variant: ESC is one-level, it ends the realm loop in demo mode as well.
handle_input_key_flat_escape(s, key, t) ==
    IF key = K_ESCAPE THEN [s EXCEPT !.running = FALSE]
    ELSE IF ~s.demo_mode THEN
        IF key = K_LEFT THEN
            IF s.selected_module % grid_cols > 0
            THEN [s EXCEPT !.selected_module = @ - 1] ELSE s
        ELSE IF key = K_RIGHT THEN
            IF s.selected_module % grid_cols < grid_cols - 1
               /\ s.selected_module < NumModules - 1
            THEN [s EXCEPT !.selected_module = @ + 1] ELSE s
        ELSE IF key = K_UP THEN
            IF s.selected_module >= grid_cols
            THEN [s EXCEPT !.selected_module = @ - grid_cols] ELSE s
        ELSE IF key = K_DOWN THEN
            IF s.selected_module + grid_cols < NumModules
            THEN [s EXCEPT !.selected_module = @ + grid_cols] ELSE s
        ELSE IF key = K_RETURN THEN [s EXCEPT !.show_preview_panel = ~@]
        ELSE IF key = K_s
        THEN [s EXCEPT !.demo_mode = TRUE, !.demo_start_time = <<t>>,
                       !.demo_timer = 30, !.demo_paused = FALSE]
        ELSE s
    ELSE IF key = K_SPACE THEN
        IF s.demo_paused
        THEN [s EXCEPT !.demo_paused = FALSE,
                       !.demo_start_time = <<t - (30 - s.demo_timer)>>]
        ELSE [s EXCEPT !.demo_paused = TRUE]
    ELSE IF key = K_r
    THEN [s EXCEPT !.demo_timer = 30, !.demo_start_time = <<t>>, !.demo_paused = FALSE]
    ELSE s

\* handle_input, the body of its loop for one KEYDOWN event at time t
handle_input_key(s, key, t) ==
    IF key = K_ESCAPE THEN
        IF s.demo_mode
        THEN [s EXCEPT !.demo_mode = FALSE, !.demo_paused = FALSE]
        ELSE [s EXCEPT !.running = FALSE]
    ELSE IF ~s.demo_mode THEN
        IF key = K_LEFT THEN
            IF s.selected_module % grid_cols > 0
            THEN [s EXCEPT !.selected_module = @ - 1] ELSE s
        ELSE IF key = K_RIGHT THEN
            IF s.selected_module % grid_cols < grid_cols - 1
               /\ s.selected_module < NumModules - 1
            THEN [s EXCEPT !.selected_module = @ + 1] ELSE s
        ELSE IF key = K_UP THEN
            IF s.selected_module >= grid_cols
            THEN [s EXCEPT !.selected_module = @ - grid_cols] ELSE s
        ELSE IF key = K_DOWN THEN
            IF s.selected_module + grid_cols < NumModules
            THEN [s EXCEPT !.selected_module = @ + grid_cols] ELSE s
        ELSE IF key = K_RETURN THEN [s EXCEPT !.show_preview_panel = ~@]
        ELSE IF key = K_s
        THEN [s EXCEPT !.demo_mode = TRUE, !.demo_start_time = <<t>>,
                       !.demo_timer = 30, !.demo_paused = FALSE]
        ELSE s
    ELSE IF key = K_SPACE THEN
        IF s.demo_paused
        THEN [s EXCEPT !.demo_paused = FALSE,
                       !.demo_start_time = <<t - (30 - s.demo_timer)>>]
        ELSE [s EXCEPT !.demo_paused = TRUE]
    ELSE IF key = K_r
    THEN [s EXCEPT !.demo_timer = 30, !.demo_start_time = <<t>>, !.demo_paused = FALSE]
    ELSE s

\* handle_input, a QUIT event: self.running = False; return False
handle_input_quit(s) == [s EXCEPT !.running = FALSE]

\* ProductivityRealm.update at time t
productivity_update(s, t) ==
    IF s.demo_mode /\ ~s.demo_paused /\ s.demo_start_time # <<>>
    THEN [s EXCEPT !.demo_timer = Max(0, 30 - (t - s.demo_start_time[1]))]
    ELSE s

\* ProductivityRealm.draw: draws the overlay or the main view, assigns nothing
productivity_draw(s) == s

\* ------------------------------------------- the main loop and the display
\* no main loop is being followed
NoLoop ==
    [ pc |-> "none", batch |-> <<>>, polled |-> <<>>, handled |-> <<>>,
      trace |-> <<>>, frames |-> 0, posted |-> 0 ]

\* no display creation is being followed
NoDisplay ==
    [ launcher |-> "none", DISPLAY |-> FALSE, fullscreen |-> TRUE, failing |-> {},
      pc |-> "none", driver |-> 0, tried |-> <<>>, screen |-> "None",
      status |-> "none" ]

\* ------------------------------------------------------------ the state machine
Programs == {"motibeam", "pygame", "pro"}

Init ==
    /\ prog \in Programs
    /\ os = MotiBeamOS_init
    /\ sp = SpatialOS_init
    /\ pro = SpatialOSPro_init
    /\ now = 0
    /\ nkeys = 0
    /\ cl = ClinicalRealm_init
    /\ pr = ProductivityRealm_init
    /\ loop = NoLoop
    /\ disp = NoDisplay

Alive ==
    \/ prog = "motibeam" /\ os.running
    \/ prog = "pygame" /\ sp.running
    \/ prog = "pro" /\ pro.screen # "shutdown"

\* MotiBeamOS.run: one KEYDOWN event handed to handle_key
OsKeyDown ==
    /\ prog = "motibeam" /\ os.running /\ nkeys < MaxKeys
    /\ \E key \in Keys : os' = handle_key(os, key, now)
    /\ nkeys' = nkeys + 1
    /\ UNCHANGED <<prog, sp, pro, now>>
    /\ UNCHANGED sceneVars

\* MotiBeamOS.run: a QUIT event
OsQuitEvent ==
    /\ prog = "motibeam" /\ os.running
    /\ os' = run_quit_event(os)
    /\ UNCHANGED <<prog, sp, pro, now, nkeys>>
    /\ UNCHANGED sceneVars

\* SpatialOS.handle_events: one KEYDOWN event
SpKeyDown ==
    /\ prog = "pygame" /\ sp.running /\ nkeys < MaxKeys
    /\ \E key \in Keys : sp' = handle_events_key(sp, key)
    /\ nkeys' = nkeys + 1
    /\ UNCHANGED <<prog, os, pro, now>>
    /\ UNCHANGED sceneVars

\* SpatialOS.handle_events: a QUIT event
SpQuitEvent ==
    /\ prog = "pygame" /\ sp.running
    /\ sp' = handle_events_quit(sp)
    /\ UNCHANGED <<prog, os, pro, now, nkeys>>
    /\ UNCHANGED sceneVars

\* SpatialOSPro.show_menu: one KEYDOWN event
ProMenuKeyDown ==
    /\ prog = "pro" /\ pro.screen = "menu" /\ nkeys < MaxKeys
    /\ \E key \in Keys : pro' = show_menu_key(pro, key)
    /\ nkeys' = nkeys + 1
    /\ UNCHANGED <<prog, os, sp, now>>
    /\ UNCHANGED sceneVars

\* SpatialOSPro.show_menu: a QUIT event returns None
ProQuitEvent ==
    /\ prog = "pro" /\ pro.screen = "menu"
    /\ pro' = run_break(pro)
    /\ UNCHANGED <<prog, os, sp, now, nkeys>>
    /\ UNCHANGED sceneVars

\* SpatialOSPro.show_placeholder: one KEYDOWN event
ProRealmKeyDown ==
    /\ prog = "pro" /\ pro.screen = "realm" /\ nkeys < MaxKeys
    /\ \E key \in Keys : pro' = show_placeholder_key(pro, key)
    /\ nkeys' = nkeys + 1
    /\ UNCHANGED <<prog, os, sp, now>>
    /\ UNCHANGED sceneVars

\* SpatialOSPro.show_placeholder: the 5 second timeout
ProRealmTimeout ==
    /\ prog = "pro" /\ pro.screen = "realm"
    /\ pro' = show_placeholder_timeout(pro)
    /\ UNCHANGED <<prog, os, sp, now, nkeys>>
    /\ UNCHANGED sceneVars

\* the wall clock advances by one second
Tick ==
    /\ Alive /\ now < MaxNow
    /\ now' = now + 1
    /\ UNCHANGED <<prog, os, sp, pro, nkeys>>
    /\ UNCHANGED sceneVars

Next ==
    \/ OsKeyDown
    \/ OsQuitEvent
    \/ SpKeyDown
    \/ SpQuitEvent
    \/ ProMenuKeyDown
    \/ ProQuitEvent
    \/ ProRealmKeyDown
    \/ ProRealmTimeout
    \/ Tick

Spec == Init /\ [][Next]_vars

\* ============================================================ long key sequences
\* MotiBeamOS alone, driven by the keys of one feature, for sequences longer
\* than MaxKeys.
InitMotiBeamOS == Init /\ prog = "motibeam"

\* one KEYDOWN event out of keys handed to handle_key, at most max of them
KeyDownOf(keys, max) ==
    /\ prog = "motibeam" /\ os.running /\ nkeys < max
    /\ \E key \in keys : os' = handle_key(os, key, now)
    /\ nkeys' = nkeys + 1
    /\ UNCHANGED <<prog, sp, pro, now>>
    /\ UNCHANGED sceneVars

\* ---- an Education quiz session from the home grid to its completion
MaxEdKeys == 10
EdKeys == {K_1 + 6, K_RETURN, K_RIGHT, K_s, K_a, K_b, K_c, K_n, K_ESCAPE}

EdKeyDown == KeyDownOf(EdKeys, MaxEdKeys)

NextEducation ==
    \/ EdKeyDown
    \/ Tick

SpecEducation == InitMotiBeamOS /\ [][NextEducation]_vars

\* ---- presence calls, declined and accepted, between visits to the realms
MaxCallKeys == 8
CallKeys == {K_i, K_a, K_d, K_1, K_1 + 3, K_RETURN, K_ESCAPE}

CallKeyDown == KeyDownOf(CallKeys, MaxCallKeys)

NextCall ==
    \/ CallKeyDown
    \/ Tick

SpecCall == InitMotiBeamOS /\ [][NextCall]_vars

\* ---- the Home realm's thermostat driven to both ends of its range
MaxThermoKeys == 17
ThermoKeys == {K_1 + 4, K_RETURN, K_LEFT, K_RIGHT, K_DOWN, K_ESCAPE}

ThermoKeyDown == KeyDownOf(ThermoKeys, MaxThermoKeys)

NextThermo ==
    \/ ThermoKeyDown
    \/ Tick

SpecThermo == InitMotiBeamOS /\ [][NextThermo]_vars

\* ================================================================ the main loops
\* One tick of MotiBeamOS.run, SpatialOS.run, ProductivityRealm.run and
\* ClinicalRealm.run, one action per statement of the loop body.  loop.trace
\* records what the tick has done so far: "handle" for an event handed to its
\* handler, "update" for a step that assigned a field, "render" for drawing on
\* the screen surface and "present" for pygame.display.flip().
MaxFrames == 3
MaxEvents == 3
MaxBatch == 2

\* seconds that may pass in one clock.tick: none, more than the ECG alert's 2.5,
\* more than the alert banner's 8 and the ticker's 15
FrameDelays == {0, 3, 30}

LoopPrograms == {"motibeam", "pygame", "productivity", "clinical"}

QUIT == [type |-> "QUIT", key |-> 0]
KeyDown(key) == [type |-> "KEYDOWN", key |-> key]
EventsOf(keys) == {QUIT} \cup {KeyDown(key) : key \in keys}

OsEvents == EventsOf({K_RETURN, K_ESCAPE, K_RIGHT, K_l, K_i, K_d})
SpEvents == EventsOf({K_RETURN, K_RIGHT, K_a, K_c, K_q})
PrEvents == EventsOf({K_ESCAPE, K_RIGHT, K_DOWN, K_RETURN, K_s, K_SPACE, K_r})
ClEvents == EventsOf({K_ESCAPE, K_RIGHT, K_LEFT, K_1, K_w, K_SPACE})

\* what pygame.event.get() may return
Batches(events) == UNION {[1..n -> events] : n \in 0..MaxBatch}

\* "update" if a step changed the object
Assigned(before_, after_) == IF after_ # before_ THEN <<"update">> ELSE <<>>

InitLoop ==
    /\ prog \in LoopPrograms
    /\ os = MotiBeamOS_init
    /\ sp = SpatialOS_init
    /\ pro = SpatialOSPro_init
    /\ now = 0
    /\ nkeys = 0
    /\ cl = [ClinicalRealm_init EXCEPT !.running = TRUE]
    /\ pr = ProductivityRealm_init
    /\ loop = [NoLoop EXCEPT !.pc = IF prog = "pygame" THEN "initial_draw"
                                    ELSE IF prog = "clinical" THEN "clock_tick"
                                    ELSE "event_get"]
    /\ disp = NoDisplay

\* for event in pygame.event.get(): the batch of this tick is taken off the queue
EventGet(events) ==
    /\ loop.pc = "event_get" /\ loop.frames < MaxFrames
    /\ \E b \in Batches(events) :
        /\ loop.posted + Len(b) <= MaxEvents
        /\ loop' = [loop EXCEPT !.pc = "for_event", !.batch = b, !.polled = b,
                                !.handled = <<>>, !.trace = <<>>,
                                !.posted = @ + Len(b)]

\* the loop variable after the first event of the batch went to its handler
Handled(running) ==
    [loop EXCEPT !.batch = Tail(@), !.handled = Append(@, Head(loop.batch)),
                 !.trace = Append(@, "handle"),
                 !.pc = IF running THEN "for_event" ELSE "exit"]

\* the for loop over the batch has ended
Drained == loop.pc = "for_event" /\ loop.batch = <<>>

\* clock.tick(fps): the frame ends and time passes
ClockTick == \E d \in FrameDelays : now' = now + d

\* ---- MotiBeamOS.run
OsRunEventGet ==
    /\ prog = "motibeam" /\ EventGet(OsEvents)
    /\ UNCHANGED <<prog, os, sp, pro, now, nkeys, cl, pr, disp>>

\* QUIT and a key that ends in sys.exit leave the rest of the batch behind
OsRunForEvent ==
    /\ prog = "motibeam" /\ loop.pc = "for_event" /\ loop.batch # <<>>
    /\ LET event == Head(loop.batch)
           s1 == IF event.type = "QUIT" THEN run_quit_event(os)
                 ELSE handle_key(os, event.key, now)
       IN  os' = s1 /\ loop' = Handled(s1.running)
    /\ UNCHANGED <<prog, sp, pro, now, nkeys, cl, pr, disp>>

\* self.screen.fill(BG_COLOR); self.draw_alert_banner()
OsRunDrawAlertBanner ==
    /\ prog = "motibeam" /\ Drained
    /\ LET s1 == draw_alert_banner(os, now)
       IN  /\ os' = s1
           /\ loop' = [loop EXCEPT
                 !.pc = "render_state",
                 !.trace = @ \o <<"render">> \o Assigned(os, s1)
                             \o (IF os.alert_enabled THEN <<"render">> ELSE <<>>)]
    /\ UNCHANGED <<prog, sp, pro, now, nkeys, cl, pr, disp>>

\* self.draw_state_indicator(); then the rendering routed on self.state
OsRunRenderState ==
    /\ prog = "motibeam" /\ loop.pc = "render_state"
    /\ os' = render_state(draw_state_indicator(os))
    /\ loop' = [loop EXCEPT !.pc = "draw_ticker", !.trace = Append(@, "render")]
    /\ UNCHANGED <<prog, sp, pro, now, nkeys, cl, pr, disp>>

\* self.draw_ticker()
OsRunDrawTicker ==
    /\ prog = "motibeam" /\ loop.pc = "draw_ticker"
    /\ LET s1 == draw_ticker(os)
       IN  /\ os' = s1
           /\ loop' = [loop EXCEPT !.pc = "flip",
                                   !.trace = @ \o Assigned(os, s1) \o <<"render">>]
    /\ UNCHANGED <<prog, sp, pro, now, nkeys, cl, pr, disp>>

\* self.draw_call_overlay(); pygame.display.flip(); self.clock.tick(30)
OsRunFlip ==
    /\ prog = "motibeam" /\ loop.pc = "flip"
    /\ os' = draw_call_overlay(os)
    /\ loop' = [loop EXCEPT
          !.pc = "event_get", !.frames = @ + 1,
          !.trace = @ \o (IF os.call_active THEN <<"render">> ELSE <<>>)
                      \o <<"present">>]
    /\ ClockTick
    /\ UNCHANGED <<prog, sp, pro, nkeys, cl, pr, disp>>

\* ---- SpatialOS.run
\* "Force initial draw": self.draw(); pygame.display.update(), before the loop
SpRunInitialDraw ==
    /\ prog = "pygame" /\ loop.pc = "initial_draw"
    /\ sp' = draw(sp)
    /\ loop' = [loop EXCEPT !.pc = "event_get"]
    /\ UNCHANGED <<prog, os, pro, now, nkeys, cl, pr, disp>>

SpRunEventGet ==
    /\ prog = "pygame" /\ EventGet(SpEvents)
    /\ UNCHANGED <<prog, os, sp, pro, now, nkeys, cl, pr, disp>>

\* handle_events goes through the whole batch, also after Q or QUIT
SpRunForEvent ==
    /\ prog = "pygame" /\ loop.pc = "for_event" /\ loop.batch # <<>>
    /\ LET event == Head(loop.batch)
       IN  sp' = IF event.type = "QUIT" THEN handle_events_quit(sp)
                 ELSE handle_events_key(sp, event.key)
    /\ loop' = Handled(TRUE)
    /\ UNCHANGED <<prog, os, pro, now, nkeys, cl, pr, disp>>

\* self.update()
SpRunUpdate ==
    /\ prog = "pygame" /\ Drained
    /\ LET s1 == update(sp, now)
       IN  /\ sp' = s1
           /\ loop' = [loop EXCEPT !.pc = "draw", !.trace = @ \o Assigned(sp, s1)]
    /\ UNCHANGED <<prog, os, pro, now, nkeys, cl, pr, disp>>

\* self.draw(), which ends in display.flip(); self.clock.tick(60); while self.running
SpRunDraw ==
    /\ prog = "pygame" /\ loop.pc = "draw"
    /\ LET s1 == draw(sp)
       IN  /\ sp' = s1
           /\ loop' = [loop EXCEPT
                 !.pc = IF sp.running THEN "event_get" ELSE "exit",
                 !.frames = @ + 1,
                 !.trace = @ \o <<"render">> \o Assigned(sp, s1) \o <<"present">>]
    /\ ClockTick
    /\ UNCHANGED <<prog, os, pro, nkeys, cl, pr, disp>>

\* ---- ProductivityRealm.run
PrRunEventGet ==
    /\ prog = "productivity" /\ EventGet(PrEvents)
    /\ UNCHANGED <<prog, os, sp, pro, now, nkeys, cl, pr, disp>>

\* handle_input returns False at QUIT and at ESC outside the demo: run breaks
PrRunForEvent ==
    /\ prog = "productivity" /\ loop.pc = "for_event" /\ loop.batch # <<>>
    /\ LET event == Head(loop.batch)
           s1 == IF event.type = "QUIT" THEN handle_input_quit(pr)
                 ELSE handle_input_key(pr, event.key, now)
       IN  pr' = s1 /\ loop' = Handled(s1.running)
    /\ UNCHANGED <<prog, os, sp, pro, now, nkeys, cl, disp>>

\* self.update()
PrRunUpdate ==
    /\ prog = "productivity" /\ Drained
    /\ LET s1 == productivity_update(pr, now)
       IN  /\ pr' = s1
           /\ loop' = [loop EXCEPT !.pc = "draw", !.trace = @ \o Assigned(pr, s1)]
    /\ UNCHANGED <<prog, os, sp, pro, now, nkeys, cl, disp>>

\* self.draw(), which ends in display.flip(); clock.tick(30)
PrRunDraw ==
    /\ prog = "productivity" /\ loop.pc = "draw"
    /\ pr' = productivity_draw(pr)
    /\ loop' = [loop EXCEPT !.pc = "event_get", !.frames = @ + 1,
                            !.trace = @ \o <<"render", "present">>]
    /\ ClockTick
    /\ UNCHANGED <<prog, os, sp, pro, nkeys, cl, disp>>

\* ---- ClinicalRealm.run
\* dt = self.clock.tick(30); the optional timeout of run(duration)
ClRunClockTick ==
    /\ prog = "clinical" /\ loop.pc = "clock_tick"
    /\ ClockTick
    /\ loop' = [loop EXCEPT !.pc = IF get_ticks(now') - get_ticks(0) > duration * 1000
                                   THEN "exit" ELSE "event_get"]
    /\ UNCHANGED <<prog, os, sp, pro, nkeys, cl, pr, disp>>

ClRunEventGet ==
    /\ prog = "clinical" /\ EventGet(ClEvents)
    /\ UNCHANGED <<prog, os, sp, pro, now, nkeys, cl, pr, disp>>

\* the for loop of run goes through the whole batch, also after ESC or QUIT
ClRunForEvent ==
    /\ prog = "clinical" /\ loop.pc = "for_event" /\ loop.batch # <<>>
    /\ LET event == Head(loop.batch)
       IN  cl' = IF event.type = "QUIT" THEN clinical_quit(cl)
                 ELSE clinical_key(cl, event.key, now)
    /\ loop' = Handled(TRUE)
    /\ UNCHANGED <<prog, os, sp, pro, now, nkeys, pr, disp>>

\* screen.fill, _draw_header, the view chosen by current_view, _draw_footer
ClRunDraw ==
    /\ prog = "clinical" /\ Drained
    /\ cl' = clinical_draw_view(cl)
    /\ loop' = [loop EXCEPT !.pc = "draw_ecg_alert", !.trace = Append(@, "render")]
    /\ UNCHANGED <<prog, os, sp, pro, now, nkeys, pr, disp>>

\* self._draw_ecg_alert(colors)
ClRunDrawEcgAlert ==
    /\ prog = "clinical" /\ loop.pc = "draw_ecg_alert"
    /\ LET s1 == draw_ecg_alert(cl, now)
       IN  /\ cl' = s1
           /\ loop' = [loop EXCEPT
                 !.pc = "flip",
                 !.trace = @ \o Assigned(cl, s1)
                             \o (IF s1.ecg_alert_active THEN <<"render">> ELSE <<>>)]
    /\ UNCHANGED <<prog, os, sp, pro, now, nkeys, pr, disp>>

\* pygame.display.flip(); while self.running
ClRunFlip ==
    /\ prog = "clinical" /\ loop.pc = "flip"
    /\ loop' = [loop EXCEPT !.pc = IF cl.running THEN "clock_tick" ELSE "exit",
                            !.frames = @ + 1, !.trace = Append(@, "present")]
    /\ UNCHANGED <<prog, os, sp, pro, now, nkeys, cl, pr, disp>>

NextLoop ==
    \/ OsRunEventGet
    \/ OsRunForEvent
    \/ OsRunDrawAlertBanner
    \/ OsRunRenderState
    \/ OsRunDrawTicker
    \/ OsRunFlip
    \/ SpRunInitialDraw
    \/ SpRunEventGet
    \/ SpRunForEvent
    \/ SpRunUpdate
    \/ SpRunDraw
    \/ PrRunEventGet
    \/ PrRunForEvent
    \/ PrRunUpdate
    \/ PrRunDraw
    \/ ClRunClockTick
    \/ ClRunEventGet
    \/ ClRunForEvent
    \/ ClRunDraw
    \/ ClRunDrawEcgAlert
    \/ ClRunFlip

SpecLoop == InitLoop /\ [][NextLoop]_vars

\* ============================================================ display creation
\* The display creation of init_display (spatial_os.py), SpatialOS.__init__
\* (spatial_os_pygame.py) and PatentDisplayManager.__init__
\* (core/patent_display_manager.py).  disp.failing holds the attempts that the
\* platform refuses; disp.tried lists the set_mode calls made so far.
Launchers == {"init_display", "SpatialOS", "PatentDisplayManager"}

\* SpatialOS.__init__: drivers_to_try, by whether DISPLAY is in os.environ
drivers_to_try(DISPLAY) ==
    IF DISPLAY THEN <<"x11", "directx", "windib">>
    ELSE <<"fbcon", "directfb", "svgalib">>

\* what can fail in a launcher's display creation
Attempts(launcher, DISPLAY) ==
    IF launcher = "init_display" THEN {"fullscreen"}
    ELSE IF launcher = "SpatialOS"
    THEN {drivers_to_try(DISPLAY)[i] : i \in 1..3} \cup {"auto", "fullscreen", "windowed"}
    ELSE {"1920x1080 fullscreen", "1280x720 fullscreen", "800x600 windowed"}

InitDisplay ==
    /\ prog = "display"
    /\ os = MotiBeamOS_init
    /\ sp = SpatialOS_init
    /\ pro = SpatialOSPro_init
    /\ now = 0
    /\ nkeys = 0
    /\ cl = ClinicalRealm_init
    /\ pr = ProductivityRealm_init
    /\ loop = NoLoop
    /\ \E launcher \in Launchers, DISPLAY \in BOOLEAN, fullscreen \in BOOLEAN :
        /\ launcher # "SpatialOS" => (~DISPLAY /\ fullscreen)
        /\ \E failing \in SUBSET Attempts(launcher, DISPLAY) :
            disp = [ launcher |-> launcher, DISPLAY |-> DISPLAY,
                     fullscreen |-> fullscreen, failing |-> failing,
                     pc |-> IF launcher = "SpatialOS" THEN "drivers" ELSE "set_mode",
                     driver |-> 0, tried |-> <<>>, screen |-> "None",
                     status |-> "running" ]

\* pygame.display.set_mode for the named mode: the screen, or "None" on failure
set_mode(d, mode) == IF mode \in d.failing THEN "None" ELSE mode

\* init_display: one set_mode call outside any try; a pygame.error leaves the
\* function and ends the process
init_display(d) ==
    LET screen == set_mode(d, "fullscreen")
    IN  [d EXCEPT !.tried = Append(@, "fullscreen"), !.screen = screen, !.pc = "done",
                  !.status = IF screen = "None" THEN "error" ELSE "ok"]

InitDisplaySetMode ==
    /\ disp.launcher = "init_display" /\ disp.pc = "set_mode"
    /\ disp' = init_display(disp)
    /\ UNCHANGED <<prog, os, sp, pro, now, nkeys, cl, pr, loop>>

\* SpatialOS.__init__: one turn of "for driver in drivers_to_try"
SpTryDriver ==
    /\ disp.launcher = "SpatialOS" /\ disp.pc = "drivers"
    /\ LET driver == drivers_to_try(disp.DISPLAY)[disp.driver + 1]
       IN  disp' = IF driver \notin disp.failing
                   THEN [disp EXCEPT !.pc = "fullscreen"]
                   ELSE [disp EXCEPT !.driver = @ + 1,
                                     !.pc = IF disp.driver + 1 = 3 THEN "auto"
                                            ELSE "drivers"]
    /\ UNCHANGED <<prog, os, sp, pro, now, nkeys, cl, pr, loop>>

\* SpatialOS.__init__: "let SDL choose automatically", else sys.exit(1)
SpAutoDriver ==
    /\ disp.launcher = "SpatialOS" /\ disp.pc = "auto"
    /\ disp' = IF "auto" \in disp.failing
               THEN [disp EXCEPT !.pc = "done", !.status = "exit 1"]
               ELSE [disp EXCEPT !.pc = "fullscreen"]
    /\ UNCHANGED <<prog, os, sp, pro, now, nkeys, cl, pr, loop>>

\* SpatialOS.__init__: "Try fullscreen first if requested"
SpSetModeFullscreen ==
    /\ disp.launcher = "SpatialOS" /\ disp.pc = "fullscreen"
    /\ disp' = IF disp.fullscreen
               THEN [disp EXCEPT !.tried = Append(@, "fullscreen"),
                                 !.screen = set_mode(disp, "fullscreen"),
                                 !.pc = "windowed"]
               ELSE [disp EXCEPT !.pc = "windowed"]
    /\ UNCHANGED <<prog, os, sp, pro, now, nkeys, cl, pr, loop>>

\* SpatialOS.__init__: "Fall back to windowed mode", else sys.exit(1)
SpSetModeWindowed ==
    /\ disp.launcher = "SpatialOS" /\ disp.pc = "windowed"
    /\ disp' = IF disp.screen = "None"
               THEN LET screen == set_mode(disp, "windowed")
                    IN  [disp EXCEPT !.tried = Append(@, "windowed"),
                                     !.screen = screen, !.pc = "done",
                                     !.status = IF screen = "None" THEN "exit 1"
                                                ELSE "ok"]
               ELSE [disp EXCEPT !.pc = "done", !.status = "ok"]
    /\ UNCHANGED <<prog, os, sp, pro, now, nkeys, cl, pr, loop>>

\* PatentDisplayManager.__init__: "Try 1920x1080 fullscreen"
PdmSetMode1080 ==
    /\ disp.launcher = "PatentDisplayManager" /\ disp.pc = "set_mode"
    /\ LET screen == set_mode(disp, "1920x1080 fullscreen")
       IN  disp' = [disp EXCEPT !.tried = Append(@, "1920x1080 fullscreen"),
                                !.screen = screen,
                                !.pc = IF screen = "None" THEN "except e1" ELSE "done",
                                !.status = IF screen = "None" THEN @ ELSE "ok"]
    /\ UNCHANGED <<prog, os, sp, pro, now, nkeys, cl, pr, loop>>

\* PatentDisplayManager.__init__: "Fallback to 1280x720 fullscreen"
PdmSetMode720 ==
    /\ disp.launcher = "PatentDisplayManager" /\ disp.pc = "except e1"
    /\ LET screen == set_mode(disp, "1280x720 fullscreen")
       IN  disp' = [disp EXCEPT !.tried = Append(@, "1280x720 fullscreen"),
                                !.screen = screen,
                                !.pc = IF screen = "None" THEN "except e2" ELSE "done",
                                !.status = IF screen = "None" THEN @ ELSE "ok"]
    /\ UNCHANGED <<prog, os, sp, pro, now, nkeys, cl, pr, loop>>

\* PatentDisplayManager.__init__: "Final fallback: 800x600 windowed", outside
\* any try: a failure leaves __init__ as an exception
PdmSetMode600 ==
    /\ disp.launcher = "PatentDisplayManager" /\ disp.pc = "except e2"
    /\ LET screen == set_mode(disp, "800x600 windowed")
       IN  disp' = [disp EXCEPT !.tried = Append(@, "800x600 windowed"),
                                !.screen = screen, !.pc = "done",
                                !.status = IF screen = "None" THEN "error" ELSE "ok"]
    /\ UNCHANGED <<prog, os, sp, pro, now, nkeys, cl, pr, loop>>

NextDisplay ==
    \/ InitDisplaySetMode
    \/ SpTryDriver
    \/ SpAutoDriver
    \/ SpSetModeFullscreen
    \/ SpSetModeWindowed
    \/ PdmSetMode1080
    \/ PdmSetMode720
    \/ PdmSetMode600

SpecDisplay == InitDisplay /\ [][NextDisplay]_vars

\* ============================================================ properties
\* The navigation state of MotiBeamOS
Nav(s) == <<s.selected_index, s.state, s.navigation_stack>>

BoundCells == {0, 3, 4, 5, 6, 8}
UnboundCells == {1, 2, 7, 9, 10, 11}
GridSize == 4 * 3

OsHome == prog = "motibeam" /\ os.running /\ os.state = "home"
OsInRealm == prog = "motibeam" /\ os.running /\ os.state # "home"

\* C1: after every step the home-grid selection index of MotiBeamOS
\* (selected_index) and of SpatialOS (selected_realm) lies in 0 .. 11.
C1_SelectionInRange ==
    /\ os.selected_index \in 0 .. (GridSize - 1)
    /\ sp.selected_realm \in 0 .. (GridSize - 1)

\* the last cell of the grid has been reached: RIGHT and DOWN would leave the grid
C1_Witness ==
    prog = "motibeam" /\ os.state = "home" /\ os.selected_index = GridSize - 1

\* C2: in MotiBeamOS a realm is active (state # "home") exactly when
\* navigation_stack has more than one entry.
C2_RealmActiveIffStack ==
    (os.state # "home") <=> (Len(os.navigation_stack) > 1)

\* back on the home grid after a visit to Marketplace that opened the preview
C2_Witness ==
    /\ prog = "motibeam" /\ os.state = "home"
    /\ Len(os.navigation_stack) = 1
    /\ os.realm_data.marketplace.preview_open

\* C3: on every reachable Home state whose selected cell is bound to a realm,
\* RETURN enters a realm and an immediate ESC restores selected_index, state and
\* navigation_stack to what they were before the RETURN.
C3_EnterCancelRestores ==
    (OsHome /\ os.selected_index \in BoundCells) =>
        LET entered == handle_key(os, K_RETURN, now)
            back == handle_key(entered, K_ESCAPE, now)
        IN  /\ entered.state # "home"
            /\ back.running
            /\ Nav(back) = Nav(os)

\* Home state on cell 4 after the Home realm was entered, used and left
C3_Witness ==
    /\ OsHome /\ os.selected_index = 4
    /\ os.realm_data.home_realm.selected # 0

\* C4: leaving a realm with ESC and confirming the same cell again leaves every
\* realm_data entry as it was: ESC changes no realm_data, and RETURN on the home
\* grid re-enters the same realm and changes no realm_data.
C4_RealmStateSurvivesExit ==
    /\ OsInRealm =>
        LET left == handle_key(os, K_ESCAPE, now)
            again == handle_key(left, K_RETURN, now)
        IN  /\ left.state = "home"
            /\ left.realm_data = os.realm_data
            /\ again.state = os.state
            /\ again.realm_data = os.realm_data
    /\ (OsHome /\ os.selected_index \in BoundCells) =>
        handle_key(os, K_RETURN, now).realm_data = os.realm_data

\* back on the home grid with the bedroom lights, off at start, toggled on
C4_Witness ==
    /\ OsHome /\ os.selected_index = 4
    /\ os.realm_data.home_realm.devices.bedroom_lights

\* the clamped one-step move on the 4-column, 3-row grid, as the claim states it
ClampTo(v, lo, hi) == IF v < lo THEN lo ELSE IF v > hi THEN hi ELSE v
ClampedMove(i, dx, dy) ==
    ClampTo((i \div 4) + dy, 0, 2) * 4 + ClampTo((i % 4) + dx, 0, 3)

Arrows ==
    { [key |-> K_LEFT, dx |-> -1, dy |-> 0], [key |-> K_RIGHT, dx |-> 1, dy |-> 0],
      [key |-> K_UP, dx |-> 0, dy |-> -1], [key |-> K_DOWN, dx |-> 0, dy |-> 1] }

\* the selection after the keys of ks, pressed in order on a fresh MotiBeamOS
RECURSIVE OsAfter(_, _)
OsAfter(s, ks) ==
    IF ks = <<>> THEN s ELSE OsAfter(handle_key(s, Head(ks), 0), Tail(ks))

\* the selection after the keys of ks, pressed in order on a fresh SpatialOS
RECURSIVE SpAfter(_, _)
SpAfter(s, ks) ==
    IF ks = <<>> THEN s ELSE SpAfter(handle_events_key(s, Head(ks)), Tail(ks))

\* C5: every arrow key moves the home-grid selection by one clamped step, in
\* MotiBeamOS and in SpatialOS; from 0, right x3 gives 3, right again 3, down 7.
C5_ClampedMove ==
    /\ \A a \in Arrows :
        /\ OsHome =>
             handle_key(os, a.key, now).selected_index
                 = ClampedMove(os.selected_index, a.dx, a.dy)
        /\ (prog = "pygame" /\ sp.running) =>
             handle_events_key(sp, a.key).selected_realm
                 = ClampedMove(sp.selected_realm, a.dx, a.dy)
    /\ OsAfter(MotiBeamOS_init, <<K_RIGHT, K_RIGHT, K_RIGHT>>).selected_index = 3
    /\ OsAfter(MotiBeamOS_init,
               <<K_RIGHT, K_RIGHT, K_RIGHT, K_RIGHT>>).selected_index = 3
    /\ OsAfter(MotiBeamOS_init,
               <<K_RIGHT, K_RIGHT, K_RIGHT, K_RIGHT, K_DOWN>>).selected_index = 7
    /\ SpAfter(SpatialOS_init,
               <<K_RIGHT, K_RIGHT, K_RIGHT, K_RIGHT, K_DOWN>>).selected_realm = 7

\* SpatialOS on the bottom-right cell, where RIGHT and DOWN are both clamped
C5_Witness ==
    prog = "pygame" /\ sp.running /\ sp.selected_realm = 11

\* C6: numeric key N in 1..9 in the Home state sets the selection to N-1 when
\* N-1 is below the grid size and leaves it otherwise; state and
\* navigation_stack (SpatialOS: everything but the selection) do not change.
C6_QuickSelect ==
    \A n \in 1 .. 9 :
        LET key == K_1 + (n - 1)
            want(old) == IF n - 1 < GridSize THEN n - 1 ELSE old
        IN  /\ OsHome =>
                LET r == handle_key(os, key, now)
                IN  r = [os EXCEPT !.selected_index = want(os.selected_index)]
            /\ (prog = "pygame" /\ sp.running) =>
                LET r == handle_events_key(sp, key)
                IN  r = [sp EXCEPT !.selected_realm = want(sp.selected_realm)]

\* one key after start the highlight is on cell 8: only the key 9 does that
C6_Witness ==
    OsHome /\ os.selected_index = 8 /\ nkeys = 1

\* C7: a numeric quick-select key on the top-level menu changes only the
\* highlighted index and never enters or launches a realm, in MotiBeamOS,
\* SpatialOS and SpatialOSPro.
C7_QuickSelectNeverEnters ==
    \A key \in DigitKeys :
        /\ OsHome =>
             LET r == handle_key(os, key, now)
             IN  r.state = "home" /\ r.navigation_stack = os.navigation_stack
        /\ (prog = "pygame" /\ sp.running) =>
             handle_events_key(sp, key).productivity_runs = sp.productivity_runs
        /\ (prog = "pro" /\ pro.screen = "menu") =>
             LET r == show_menu_key(pro, key)
             IN  r.screen = "menu" /\ r.launched = pro.launched

\* C8: from every reachable state of MotiBeamOS the key Q terminates the
\* process and does nothing else: no realm handler and no cancel handling sees it.
C8_QuitAlwaysTerminates ==
    (prog = "motibeam" /\ os.running) =>
        handle_key(os, K_q, now) = [os EXCEPT !.running = FALSE]

\* terminated inside a running education session with the call overlay up
C8_Witness ==
    /\ prog = "motibeam" /\ ~os.running
    /\ os.state = "education" /\ os.realm_data.education.in_session
    /\ os.call_active

\* C9: while a realm is active every key but ESC and Q reaches the realm's own
\* handler: handle_key does exactly what the realm's handler does with the key.
C9_AllKeysForwarded ==
    OsInRealm =>
        \A key \in Keys \ {K_ESCAPE, K_q} :
            handle_key(os, key, now) = route_to_handler(os, key, now)

\* C10: RETURN or keypad ENTER on a home-grid cell with no realm bound to it
\* changes nothing at all and does not terminate the process.
C10_UnboundConfirmNoop ==
    (OsHome /\ os.selected_index \in UnboundCells) =>
        /\ handle_key(os, K_RETURN, now) = os
        /\ handle_key(os, K_KP_ENTER, now) = os

\* on an unbound cell after a realm was visited and its state changed
C10_Witness ==
    /\ OsHome /\ os.selected_index \in UnboundCells
    /\ os.realm_data.home_realm.devices.security

\* the realm each bound home-grid cell stands for, as the claims list them
RealmOfCell ==
    (0 :> "circlebeam") @@ (3 :> "marketplace") @@ (4 :> "home_realm") @@
    (5 :> "clinical") @@ (6 :> "education") @@ (8 :> "transport")

ConfirmKeys == {K_RETURN, K_KP_ENTER}

\* C11: confirm in the Home state on a bound cell enters exactly that cell's
\* realm in that one step, pushes its name on navigation_stack and leaves
\* selected_index alone; and no other key press in any state enters a realm.
C11_ConfirmEntersBoundRealm ==
    /\ (OsHome /\ os.selected_index \in BoundCells) =>
        \A key \in ConfirmKeys :
            LET r == handle_key(os, key, now)
                realm == RealmOfCell[os.selected_index]
            IN  /\ r.state = realm
                /\ r.navigation_stack = Append(os.navigation_stack, realm)
                /\ r.selected_index = os.selected_index
                /\ r.running
    /\ (prog = "motibeam" /\ os.running) =>
        \A key \in Keys :
            LET r == handle_key(os, key, now)
            IN  (r.state # os.state /\ r.state # "home") =>
                    /\ os.state = "home"
                    /\ key \in ConfirmKeys
                    /\ os.selected_index \in BoundCells

\* Transport entered from cell 8
C11_Witness ==
    /\ prog = "motibeam" /\ os.running
    /\ os.state = "transport" /\ os.selected_index = 8
    /\ os.navigation_stack = <<"home", "transport">>

\* C12: navigation_stack always starts with "home", has one or two entries, and
\* state is its top entry.
C12_HomePermanent ==
    /\ Len(os.navigation_stack) \in {1, 2}
    /\ os.navigation_stack[1] = "home"
    /\ os.state = os.navigation_stack[Len(os.navigation_stack)]

\* back on the home grid after Transport was entered, used and left
C12_Witness ==
    /\ OsHome /\ os.navigation_stack = <<"home">>
    /\ os.realm_data.transport.selected # 0

RealmIds ==
    {"circlebeam", "marketplace", "home_realm", "clinical", "education", "transport"}

\* C13: while realm X is active no key press changes the realm_data entry of a
\* realm other than X, and no key press on the home grid changes any entry.
C13_RealmIsolation ==
    (prog = "motibeam" /\ os.running) =>
        \A key \in Keys :
            LET r == handle_key(os, key, now)
                h == route_to_handler(os, key, now)
            IN  \A y \in RealmIds :
                    y # os.state =>
                        /\ r.realm_data[y] = os.realm_data[y]
                        /\ h.realm_data[y] = os.realm_data[y]

\* inside Marketplace after an install changed its own entry
C13_Witness ==
    /\ OsInRealm /\ os.state = "marketplace"
    /\ os.realm_data.marketplace.installed # {}

\* the shell-level fields of MotiBeamOS
ShellState(s) ==
    << s.selected_index, s.state, s.navigation_stack, s.ticker_text, s.call_active,
       s.missed_presence, s.alert_enabled, s.alert_change_time,
       s.current_alert_index, s.system_state >>

ShellStateButTicker(s) ==
    << s.selected_index, s.state, s.navigation_stack, s.call_active,
       s.missed_presence, s.alert_enabled, s.alert_change_time,
       s.current_alert_index, s.system_state >>

\* C14 as claimed: the active realm's handler leaves every shell-level field,
\* ticker_text included, unchanged for every key.
C14_HandlersLeaveShellState ==
    OsInRealm =>
        \A key \in Keys :
            ShellState(route_to_handler(os, key, now)) = ShellState(os)

\* C14 as amended: the active realm's handler leaves every shell-level field but
\* ticker_text unchanged; ticker_text is either unchanged or gets one message
\* prepended, an install message by the Marketplace handler or a session start
\* or completion message by the Education handler.
C14_HandlersWriteOnlyTicker ==
    OsInRealm =>
        \A key \in Keys :
            LET h == route_to_handler(os, key, now)
            IN  /\ ShellStateButTicker(h) = ShellStateButTicker(os)
                /\ h.running = os.running
                /\ \/ h.ticker_text = os.ticker_text
                   \/ /\ Len(h.ticker_text) = Len(os.ticker_text) + 1
                      /\ Tail(h.ticker_text) = os.ticker_text
                      /\ \/ os.state = "marketplace" /\ key = K_d
                            /\ Head(h.ticker_text).msg = "install"
                         \/ os.state = "education" /\ key = K_s
                            /\ Head(h.ticker_text).msg = "start"
                         \/ os.state = "education" /\ key = K_n
                            /\ Head(h.ticker_text).msg = "complete"

\* inside Marketplace right after an install put its message on the ticker
C14_Witness ==
    /\ OsInRealm /\ os.state = "marketplace"
    /\ Head(os.ticker_text).msg = "install"

\* the shell rule of move_selection on a grid of cols x rows holding count items
SubGridMove(i, dx, dy, cols, rows, count) ==
    LET target == ClampTo((i \div cols) + dy, 0, rows - 1) * cols
                      + ClampTo((i % cols) + dx, 0, cols - 1)
    IN  IF target < count THEN target ELSE i

\* C15: in CircleBeam (5 members), Marketplace, Education outside a session and
\* Transport (6 items each), every arrow key moves the realm's selection as the
\* shell rule on a 3x2 grid does, and the selection stays within the item count.
C15_SubGridClamped ==
    (prog = "motibeam" /\ os.running) =>
        /\ os.realm_data.circlebeam.selected \in 0 .. 4
        /\ os.realm_data.marketplace.selected \in 0 .. 5
        /\ os.realm_data.education.selected \in 0 .. 5
        /\ os.realm_data.transport.selected \in 0 .. 5
        /\ \A a \in Arrows :
            LET r == handle_key(os, a.key, now).realm_data
                d == os.realm_data
            IN  /\ os.state = "circlebeam" =>
                     r.circlebeam.selected
                         = SubGridMove(d.circlebeam.selected, a.dx, a.dy, 3, 2, 5)
                /\ os.state = "marketplace" =>
                     r.marketplace.selected
                         = SubGridMove(d.marketplace.selected, a.dx, a.dy, 3, 2, 6)
                /\ (os.state = "education" /\ ~d.education.in_session) =>
                     r.education.selected
                         = SubGridMove(d.education.selected, a.dx, a.dy, 3, 2, 6)
                /\ os.state = "transport" =>
                     r.transport.selected
                         = SubGridMove(d.transport.selected, a.dx, a.dy, 3, 2, 6)

\* CircleBeam on its last member, where RIGHT and DOWN both point past the items
C15_Witness ==
    /\ OsInRealm /\ os.state = "circlebeam"
    /\ os.realm_data.circlebeam.selected = 4

OsInHomeRealm == OsInRealm /\ os.state = "home_realm"

\* C16 as claimed: in the Home realm every arrow key, on every device index,
\* moves the selection as the shell rule on a 3x2 grid does and changes nothing
\* but the selection.
C16_HomeRealmClamped ==
    OsInHomeRealm =>
        \A a \in Arrows :
            LET sel == os.realm_data.home_realm.selected
                r == handle_key(os, a.key, now)
            IN  r = [os EXCEPT !.realm_data.home_realm.selected =
                                   SubGridMove(sel, a.dx, a.dy, 3, 2, 6)]

\* C16 as amended: the same, except that with the thermostat (index 2) selected
\* LEFT and RIGHT keep the selection and lower or raise the set temperature by
\* one degree within 60..85, recording the time of the change.
C16_HomeRealmClampedButThermostat ==
    OsInHomeRealm =>
        /\ os.realm_data.home_realm.selected \in 0 .. 5
        /\ \A a \in Arrows :
            LET sel == os.realm_data.home_realm.selected
                temp == os.realm_data.home_realm.devices.temp
                new_temp == ClampTo(temp + a.dx, 60, 85)
                r == handle_key(os, a.key, now)
            IN  IF sel = 2 /\ a.dx # 0
                THEN IF new_temp = temp THEN r = os
                     ELSE r = [os EXCEPT !.realm_data.home_realm.devices.temp = new_temp,
                                         !.realm_data.home_realm.temp_changed_time = now]
                ELSE r = [os EXCEPT !.realm_data.home_realm.selected =
                                        SubGridMove(sel, a.dx, a.dy, 3, 2, 6)]

\* the thermostat selected in the Home realm after its temperature was changed
C16_Witness ==
    /\ OsInHomeRealm
    /\ os.realm_data.home_realm.selected = 2
    /\ os.realm_data.home_realm.devices.temp # 72

ProMenu == prog = "pro" /\ pro.screen = "menu"

C17_RenderLeavesRealmState ==
    /\ (prog = "motibeam" /\ os.running) =>
           render_state(os).realm_data = os.realm_data
    /\ (prog = "clinical" /\ cl.running) =>
           \A d \in FrameDelays :
               draw_ecg_alert(clinical_draw_view(cl), now + d) = cl

\* the place of a step in a tick: events, then update, then render, then present
TickRank(kind) ==
    CASE kind = "handle" -> 0
      [] kind = "update" -> 1
      [] kind = "render" -> 2
      [] kind = "present" -> 3

InOrder(trace) ==
    \A i, j \in 1 .. Len(trace) :
        i < j => TickRank(trace[i]) <= TickRank(trace[j])

\* C18: in MotiBeamOS.run, SpatialOS.run and ProductivityRealm.run every tick
\* handles the pending events, then updates state, then renders, then presents,
\* in that order; no event is handled once rendering has begun, and once the
\* tick has left its event loop every event of the batch was handled exactly once.
C18_TickInOrder ==
    prog \in {"motibeam", "pygame", "productivity"} =>
        /\ InOrder(loop.trace)
        /\ loop.pc # "for_event" => loop.handled = loop.polled

WindowedModes == {"windowed", "800x600 windowed"}

\* C20: a launcher whose display creation ended the process after a set_mode
\* failure had tried its fallbacks first: the last mode it tried was a windowed
\* one, and a launcher whose first mode failed went on to try another.
C20_FallbackBeforeExit ==
    (disp.pc = "done" /\ disp.tried # <<>>) =>
        /\ disp.status \in {"error", "exit 1"} => Last(disp.tried) \in WindowedModes
        /\ (disp.tried[1] \in disp.failing /\ disp.tried[1] \notin WindowedModes) =>
               Len(disp.tried) >= 2

OsLoop == prog = "motibeam" /\ os.running

C26_StateFollowsAlert ==
    (OsLoop /\ os.alert_enabled /\ loop.pc \in {"render_state", "draw_ticker", "flip"}) =>
        (os.system_state = "ALERT"
            <=> os.current_alert_index \in {0, 1})

OsInEducation == OsInRealm /\ os.state = "education"

\* C22: ESC pressed while an education quiz session is active ends the session:
\* after the key press in_session and panel_open are both False.
C22_EscEndsSession ==
    (OsInEducation /\ os.realm_data.education.in_session) =>
        LET r == handle_key(os, K_ESCAPE, now)
        IN  /\ ~r.realm_data.education.in_session
            /\ ~r.realm_data.education.panel_open

\* the correct letter of each of the three questions of the six subjects
CorrectLetter ==
    << <<K_a, K_b, K_b>>, <<K_b, K_c, K_b>>, <<K_a, K_b, K_c>>,
       <<K_b, K_c, K_a>>, <<K_b, K_c, K_c>>, <<K_b, K_b, K_b>> >>

\* C23: q_index is 0, 1 or 2 and subject_index one of 0..5; a session starts
\* only on S with the panel open, at question 0 and unanswered; in a session
\* the question changes only on N after a correct answer, by one step, and the
\* session completes only on N at question 2 after a correct answer; a wrong
\* answer changes nothing of the quiz.
C23_QuizProgression ==
    (prog = "motibeam" /\ os.running) =>
        LET ed == os.realm_data.education
        IN  /\ ed.q_index \in 0 .. 2
            /\ ed.subject_index \in 0 .. 5
            /\ \A key \in Keys :
                LET r == handle_key(os, key, now).realm_data.education
                IN  /\ (~ed.in_session /\ r.in_session) =>
                           /\ key = K_s /\ ed.panel_open /\ os.state = "education"
                           /\ r.q_index = 0 /\ ~r.answered_correctly
                           /\ r.subject_index = ed.selected
                    /\ (ed.in_session /\ r.q_index # ed.q_index) =>
                           /\ key = K_n /\ ed.answered_correctly
                           /\ r.q_index = ed.q_index + 1
                           /\ r.in_session /\ ~r.answered_correctly
                    /\ (ed.in_session /\ ~r.in_session) =>
                           /\ key = K_n /\ ed.answered_correctly /\ ed.q_index = 2
                    /\ (ed.in_session /\ ~ed.answered_correctly /\ r.answered_correctly) =>
                           key = CorrectLetter[ed.subject_index + 1][ed.q_index + 1]
                    /\ (ed.in_session /\ key \in {K_a, K_b, K_c}
                        /\ key # CorrectLetter[ed.subject_index + 1][ed.q_index + 1]) =>
                           r = ed

\* a session that went through its three questions and was completed with N
C23_Witness ==
    /\ OsInEducation
    /\ ~os.realm_data.education.in_session
    /\ os.realm_data.education.q_index = 2
    /\ os.realm_data.education.answered_correctly
    /\ Head(os.ticker_text).msg = "complete"

\* C24: a key press adds an item to the Marketplace's installed set only if the
\* item was shown as AVAILABLE before the press, and removes none.
C24_InstallOnlyAvailable ==
    (prog = "motibeam" /\ os.running) =>
        \A key \in Keys :
            LET before_ == os.realm_data.marketplace.installed
                after_ == handle_key(os, key, now).realm_data.marketplace.installed
            IN  /\ before_ \subseteq after_
                /\ \A name \in after_ \ before_ :
                       px_status(before_, name) = "AVAILABLE"

\* how many times the 'Missed presence from Mom' message is on the ticker
MissedCount(ticker) ==
    Cardinality({i \in 1 .. Len(ticker) : ticker[i].msg = "missed"})

\* C25: after any sequence of key presses ticker_text holds the 'Missed presence
\* from Mom' message at most once.
C25_MissedMessageOnce ==
    prog = "motibeam" => MissedCount(os.ticker_text) <= 1

\* C28: call_active turns true only on I and false only on A or D; a declined
\* call, and nothing else, sets missed_presence; entering CircleBeam, and nothing
\* else, clears it; accepting a call leaves it as it is.
C28_CallLifecycle ==
    (prog = "motibeam" /\ os.running) =>
        \A key \in Keys :
            LET r == handle_key(os, key, now)
                entered == os.state = "home" /\ r.state = "circlebeam"
            IN  /\ (~os.call_active /\ r.call_active) => key = K_i
                /\ key = K_i => r.call_active
                /\ (os.call_active /\ ~r.call_active) => key \in {K_a, K_d}
                /\ (os.call_active /\ key \in {K_a, K_d}) => ~r.call_active
                /\ (~os.missed_presence /\ r.missed_presence) =>
                       key = K_d /\ os.call_active
                /\ (os.call_active /\ key = K_d) => r.missed_presence
                /\ (os.missed_presence /\ ~r.missed_presence) => entered
                /\ entered => ~r.missed_presence
                /\ (os.call_active /\ key = K_a) =>
                       r.missed_presence = os.missed_presence

\* inside CircleBeam, entered after a call was declined: the mark is cleared
C28_Witness ==
    /\ OsInRealm /\ os.state = "circlebeam"
    /\ ~os.missed_presence /\ ~os.call_active
    /\ Head(os.ticker_text).msg = "missed"

\* the device toggled by RETURN on each tile of the Home realm but the thermostat
DeviceOfTile ==
    (0 :> "living_lights") @@ (1 :> "bedroom_lights") @@ (3 :> "security") @@
    (4 :> "door") @@ (5 :> "garage")

\* C27: the thermostat's temperature stays within 60..85; a key changes it only
\* when it is LEFT or RIGHT in the Home realm with the thermostat tile selected,
\* by one degree, saturating at 60 and 85; RETURN on the thermostat changes no
\* device, and RETURN on another tile flips that tile's device and nothing else.
C27_Thermostat ==
    (prog = "motibeam" /\ os.running) =>
        LET hr == os.realm_data.home_realm
            temp == hr.devices.temp
        IN  /\ temp \in 60 .. 85
            /\ \A key \in Keys :
                LET r == handle_key(os, key, now)
                    rtemp == r.realm_data.home_realm.devices.temp
                    on_thermostat == os.state = "home_realm" /\ hr.selected = 2
                IN  /\ rtemp # temp => (on_thermostat /\ key \in {K_LEFT, K_RIGHT})
                    /\ (on_thermostat /\ key = K_LEFT) =>
                           rtemp = (IF temp = 60 THEN 60 ELSE temp - 1)
                    /\ (on_thermostat /\ key = K_RIGHT) =>
                           rtemp = (IF temp = 85 THEN 85 ELSE temp + 1)
                    /\ (on_thermostat /\ key = K_RETURN) => r = os
                    /\ (os.state = "home_realm" /\ hr.selected # 2 /\ key = K_RETURN) =>
                           r = [os EXCEPT !.realm_data.home_realm
                                              .devices[DeviceOfTile[hr.selected]] = ~@]

\* the thermostat tile selected with the temperature driven down to its minimum
C27_Witness ==
    /\ OsInHomeRealm
    /\ os.realm_data.home_realm.selected = 2
    /\ os.realm_data.home_realm.devices.temp = 60


\* C29: from the SpatialOS home grid some cell of the configured REALMS list
\* launches the Productivity realm when RETURN is pressed on it, and the grid
\* is still running afterwards.
C29_ProductivityReachable ==
    (prog = "pygame" /\ sp.running) =>
        \E cell \in 0 .. Len(REALMS_id) - 1 :
            LET r == handle_events_key([sp EXCEPT !.selected_realm = cell], K_RETURN)
            IN  /\ r.productivity_runs = sp.productivity_runs + 1
                /\ r.running


\* ProductivityRealm.run is being followed and has not ended
PrLoop == prog = "productivity" /\ loop.pc # "exit"

\* C30: in the Productivity realm ESC in demo mode only leaves demo mode (the
\* realm keeps running, demo_paused becomes False) and ESC outside demo mode
\* ends the realm loop; in demo mode the arrow keys, RETURN and S change
\* nothing; outside demo mode the selection stays within 0..5 and the arrow
\* keys move it as the clamped rule on 2 columns and 3 rows does.
C30_TwoLevelEscape ==
    /\ (prog = "productivity" /\ ~pr.running) => loop.pc = "exit"
    /\ PrLoop =>
        /\ pr.running
        /\ pr.selected_module \in 0 .. 5
        /\ LET esc == handle_input_key(pr, K_ESCAPE, now)
           IN  IF pr.demo_mode
               THEN esc = [pr EXCEPT !.demo_mode = FALSE, !.demo_paused = FALSE]
               ELSE esc = [pr EXCEPT !.running = FALSE]
        /\ pr.demo_mode =>
               \A key \in {K_LEFT, K_RIGHT, K_UP, K_DOWN, K_RETURN, K_s} :
                   handle_input_key(pr, key, now) = pr
        /\ ~pr.demo_mode =>
               \A a \in Arrows :
                   handle_input_key(pr, a.key, now) =
                       [pr EXCEPT !.selected_module = SubGridMove(@, a.dx, a.dy, 2, 3, 6)]

\* the demo was started with S and left again with ESC, the realm still running
\* on a tile other than the first
C30_Witness ==
    /\ PrLoop
    /\ ~pr.demo_mode /\ pr.demo_start_time # <<>>
    /\ pr.running
    /\ pr.selected_module > 0

====
